---- MODULE Spec2Model ----
(***************************************************************************)
(* Third-octave filter bank (third_octave_filter.cpp): the cascaded biquad *)
(* bank, its per-band temporal integration and the interleaved sample      *)
(* router, as a state machine.                                             *)
(*                                                                         *)
(* Numbers.  Samples, delay lines and sums are integers.  The coefficient  *)
(* tables keep the layout of initializeFilterBank (band, section, b[0..2], *)
(* a[0..2]); each real coefficient keeps its sign and has its magnitude    *)
(* rounded up to the next integer, so that every product is exact.  A      *)
(* float (binary32) is an integer-valued quantity here; the conversions    *)
(* the code performs on it (the cast of a square to float, the float       *)
(* addition, the float division and product of the window threshold) round *)
(* to 24 significant bits, ties to even, as binary32 does.                 *)
(***************************************************************************)
EXTENDS Integers, Sequences, FiniteSets, TLC

NUM_BANDS == 31
MAX_BIQUAD_SECTIONS == 2

LEFT_CHANNEL == 0
RIGHT_CHANNEL == 1
STEREO_CHANNEL == 2

\* The absent instance (pFilterBank == NULL).
NULL == [null |-> TRUE]

Bands == 0 .. (NUM_BANDS - 1)

----------------------------------------------------------------------------
(* Bounds of the model.                                                    *)

\* Longest buffer handed to one process call (buffer_size).
MaxLen == 4
\* Most increments of samplesCount between two allocations.
MaxFed == 3

\* Buffers are ramps: data[k] = gain * (k + 1), so that every index of a
\* buffer holds a value of its own.
Gains == {1}
\* What a read past the end of a buffer can yield.
Garbage == {0, 1}
\* sample_rate and filter_order arguments of alloc while streaming: windows
\* of 1 and 3 samples at the default integration time.
SampleRates == {8, 24}
FilterOrders == {2, 4}
\* The sample rates of the configuration specification.
ConfigRates == {8}
\* The arguments of alloc in the lifecycle specification: rates in use, rates
\* whose quotient by 1000 is inexact in binary32, and orders around {2, 4}.
AllocRates == {8, 2008, 8000, 8032, 16000, 22050, 44100, 48000, 96000, 192000}
AllocOrders == -1 .. 5
\* Inputs of a single biquad step.
StepInputs == {-1, 0, 2}
\* The integration times set while streaming and in the timing
\* specification: windows of 1 and 2 samples at 8 Hz; 0 is invalid.
RetimeTimes == {125, 250, 0}
\* Values a read of the never-constructed member alpha can yield (percent).
AlphaOutcomes == {0, 99}

----------------------------------------------------------------------------
(* binary32 arithmetic on the quantities the code keeps in float.          *)

RECURSIVE Pow2(_)
Pow2(n) == IF n <= 0 THEN 1 ELSE 2 * Pow2(n - 1)

RECURSIVE BitLen(_)
BitLen(n) == IF n <= 0 THEN 0 ELSE 1 + BitLen(n \div 2)

\* Round m + rem/unit to an integer, ties to even (0 <= rem < unit).
RoundEven(m, rem, unit) ==
  IF 2 * rem > unit \/ (2 * rem = unit /\ m % 2 = 1) THEN m + 1 ELSE m

\* A positive binary32 as <<m, e>>: the value m * 2^e, 2^23 <= m < 2^24.
Renorm(m, e) == IF m = Pow2(24) THEN <<Pow2(23), e + 1>> ELSE <<m, e>>

\* (float)n for an integer n >= 0: the nearest integer with 24 significant bits.
F32Int(n) ==
  IF n < Pow2(24) THEN n
  ELSE LET s == BitLen(n) - 24
           m == RoundEven(n \div Pow2(s), n % Pow2(s), Pow2(s))
       IN  m * Pow2(s)

\* float + float on integer-valued operands.
FAdd(x, y) == F32Int(x + y)

\* Long division n / d, one quotient bit a step, until 24 bits stand in q.
RECURSIVE DivBits(_, _, _, _)
DivBits(q, r, d, e) ==
  IF q >= Pow2(23) THEN <<q, r, e>>
  ELSE DivBits(2 * q + (IF 2 * r >= d THEN 1 ELSE 0), (2 * r) % d, d, e - 1)

\* The float quotient n / d of two positive integers below 2^24.
FDiv(n, d) ==
  LET qre == DivBits(n \div d, n % d, d, 0)
  IN  Renorm(RoundEven(qre[1], qre[2], d), qre[3])

\* The float product of the binary32 f = <<m, e>> and (float)t, 0 < t < 2^12.
\* m * t is formed in two limbs of 12 bits: m * t = hi * 2^12 + lo.
FMulInt(f, t) ==
  LET m   == f[1]
      mh  == m \div 4096
      ml  == m % 4096
      hi  == mh * t + ((ml * t) \div 4096)
      lo  == (ml * t) % 4096
      s   == BitLen(hi) - 12
      man == IF s <= 12
               THEN RoundEven(hi * Pow2(12 - s) + (lo \div Pow2(s)), lo % Pow2(s), Pow2(s))
               ELSE RoundEven(hi \div 2, (hi % 2) * 4096 + lo, 8192)
  IN  Renorm(man, f[2] + s)

\* (uint64_t)f for a positive binary32: truncation toward zero.
TruncU64(f) ==
  IF f[2] >= 0 THEN f[1] * Pow2(f[2])
  ELSE IF f[2] <= -24 THEN 0
  ELSE f[1] \div Pow2(0 - f[2])

----------------------------------------------------------------------------
(* Center frequencies, in tenths of a hertz.                               *)

center_frequencies ==
  << 200, 250, 315, 400, 500, 630, 800, 1000, 1250, 1600,
     2000, 2500, 3150, 4000, 5000, 6300, 8000, 10000, 12500,
     16000, 20000, 25000, 31500, 40000, 50000, 63000, 80000,
     100000, 125000, 160000, 200000 >>

(* The coefficient tables of initializeFilterBank: per band the sections   *)
(* it assigns, each <<b[0], b[1], b[2], a[0], a[1], a[2]>>.                 *)

Order2Table ==
  <<
     << <<1, 1, 1, 1, -2, 1>>, <<1, -2, 1, 1, -2, 1>> >>,
     << <<1, 1, 1, 1, -2, 1>>, <<1, -2, 1, 1, -2, 1>> >>,
     << <<1, 1, 1, 1, -2, 1>>, <<1, -2, 1, 1, -2, 1>> >>,
     << <<1, 1, 1, 1, -2, 1>>, <<1, -2, 1, 1, -2, 1>> >>,
     << <<1, 1, 1, 1, -2, 1>>, <<1, -2, 1, 1, -2, 1>> >>,
     << <<1, 1, 1, 1, -2, 1>>, <<1, -2, 1, 1, -2, 1>> >>,
     << <<1, 1, 1, 1, -2, 1>>, <<1, -2, 1, 1, -2, 1>> >>,
     << <<1, 1, 1, 1, -2, 1>>, <<1, -2, 1, 1, -2, 1>> >>,
     << <<1, 1, 1, 1, -2, 1>>, <<1, -2, 1, 1, -2, 1>> >>,
     << <<1, 1, 1, 1, -2, 1>>, <<1, -2, 1, 1, -2, 1>> >>,
     << <<1, 1, 1, 1, -2, 1>>, <<1, -2, 1, 1, -2, 1>> >>,
     << <<1, 1, 1, 1, -2, 1>>, <<1, -2, 1, 1, -2, 1>> >>,
     << <<1, 1, 1, 1, -2, 1>>, <<1, -2, 1, 1, -2, 1>> >>,
     << <<1, 1, 1, 1, -2, 1>>, <<1, -2, 1, 1, -2, 1>> >>,
     << <<1, 1, 1, 1, -2, 1>>, <<1, -2, 1, 1, -2, 1>> >>,
     << <<1, 1, 1, 1, -2, 1>>, <<1, -2, 1, 1, -2, 1>> >>,
     << <<1, 1, 1, 1, -2, 1>>, <<1, -2, 1, 1, -2, 1>> >>,
     << <<1, 1, 1, 1, -2, 1>>, <<1, -2, 1, 1, -2, 1>> >>,
     << <<1, 1, 1, 1, -2, 1>>, <<1, -2, 1, 1, -2, 1>> >>,
     << <<1, 1, 1, 1, -2, 1>>, <<1, -2, 1, 1, -2, 1>> >>,
     << <<1, 1, 1, 1, -2, 1>>, <<1, -2, 1, 1, -2, 1>> >>,
     << <<1, 1, 1, 1, -2, 1>>, <<1, -2, 1, 1, -2, 1>> >>,
     << <<1, 1, 1, 1, -2, 1>>, <<1, -2, 1, 1, -2, 1>> >>,
     << <<1, 1, 1, 1, -2, 1>>, <<1, -2, 1, 1, -2, 1>> >>,
     << <<1, 1, 1, 1, -2, 1>>, <<1, -2, 1, 1, -2, 1>> >>,
     << <<1, 1, 1, 1, -2, 1>>, <<1, -2, 1, 1, -2, 1>> >>,
     << <<1, 1, 1, 1, -1, 1>>, <<1, -2, 1, 1, -2, 1>> >>,
     << <<1, 1, 1, 1, -1, 1>>, <<1, -2, 1, 1, -1, 1>> >>,
     << <<1, -1, 1, 1, -1, 1>>, <<1, 2, 1, 1, 1, 1>> >>,
     << <<1, -1, 1, 1, 1, 1>>, <<1, 2, 1, 1, 2, 1>> >>,
     << <<1, -1, 1, 1, 2, 1>>, <<1, 2, 1, 1, 2, 1>> >>
  >>

Order4Table ==
  <<
     << <<1, 1, 1, 1, -2, 1>>, <<1, 2, 1, 1, -2, 1>>, <<1, -2, 1, 1, -2, 1>>, <<1, -2, 1, 1, -2, 1>> >>,
     << <<1, 1, 1, 1, -2, 1>>, <<1, 2, 1, 1, -2, 1>>, <<1, -2, 1, 1, -2, 1>>, <<1, -2, 1, 1, -2, 1>> >>,
     << <<1, 1, 1, 1, -2, 1>>, <<1, 2, 1, 1, -2, 1>>, <<1, -2, 1, 1, -2, 1>>, <<1, -2, 1, 1, -2, 1>> >>,
     << <<1, 1, 1, 1, -2, 1>>, <<1, 2, 1, 1, -2, 1>>, <<1, -2, 1, 1, -2, 1>>, <<1, -2, 1, 1, -2, 1>> >>,
     << <<1, 1, 1, 1, -2, 1>>, <<1, 2, 1, 1, -2, 1>>, <<1, -2, 1, 1, -2, 1>>, <<1, -2, 1, 1, -2, 1>> >>,
     << <<1, 1, 1, 1, -2, 1>>, <<1, 2, 1, 1, -2, 1>>, <<1, -2, 1, 1, -2, 1>>, <<1, -2, 1, 1, -2, 1>> >>,
     << <<1, 1, 1, 1, -2, 1>>, <<1, 2, 1, 1, -2, 1>>, <<1, -2, 1, 1, -2, 1>>, <<1, -2, 1, 1, -2, 1>> >>,
     << <<1, 1, 1, 1, -2, 1>>, <<1, 2, 1, 1, -2, 1>>, <<1, -2, 1, 1, -2, 1>>, <<1, -2, 1, 1, -2, 1>> >>,
     << <<1, 1, 1, 1, -2, 1>>, <<1, 2, 1, 1, -2, 1>>, <<1, -2, 1, 1, -2, 1>>, <<1, -2, 1, 1, -2, 1>> >>,
     << <<1, 1, 1, 1, -2, 1>>, <<1, 2, 1, 1, -2, 1>>, <<1, -2, 1, 1, -2, 1>>, <<1, -2, 1, 1, -2, 1>> >>,
     << <<1, 1, 1, 1, -2, 1>>, <<1, 2, 1, 1, -2, 1>>, <<1, -2, 1, 1, -2, 1>>, <<1, -2, 1, 1, -2, 1>> >>,
     << <<1, 1, 1, 1, -2, 1>>, <<1, 2, 1, 1, -2, 1>>, <<1, -2, 1, 1, -2, 1>>, <<1, -2, 1, 1, -2, 1>> >>,
     << <<1, 1, 1, 1, -2, 1>>, <<1, 2, 1, 1, -2, 1>>, <<1, -2, 1, 1, -2, 1>>, <<1, -2, 1, 1, -2, 1>> >>,
     << <<1, 1, 1, 1, -2, 1>>, <<1, 2, 1, 1, -2, 1>>, <<1, -2, 1, 1, -2, 1>>, <<1, -2, 1, 1, -2, 1>> >>,
     << <<1, 1, 1, 1, -2, 1>>, <<1, 2, 1, 1, -2, 1>>, <<1, -2, 1, 1, -2, 1>>, <<1, -2, 1, 1, -2, 1>> >>,
     << <<1, 1, 1, 1, -2, 1>>, <<1, 2, 1, 1, -2, 1>>, <<1, -2, 1, 1, -2, 1>>, <<1, -2, 1, 1, -2, 1>> >>,
     << <<1, 1, 1, 1, -2, 1>>, <<1, 2, 1, 1, -2, 1>>, <<1, -2, 1, 1, -2, 1>>, <<1, -2, 1, 1, -2, 1>> >>,
     << <<1, 1, 1, 1, -2, 1>>, <<1, 2, 1, 1, -2, 1>>, <<1, -2, 1, 1, -2, 1>>, <<1, -2, 1, 1, -2, 1>> >>,
     << <<1, 1, 1, 1, -2, 1>>, <<1, 2, 1, 1, -2, 1>>, <<1, -2, 1, 1, -2, 1>>, <<1, -2, 1, 1, -2, 1>> >>,
     << <<1, 1, 1, 1, -2, 1>>, <<1, 2, 1, 1, -2, 1>>, <<1, -2, 1, 1, -2, 1>>, <<1, -2, 1, 1, -2, 1>> >>,
     << <<1, 1, 1, 1, -2, 1>>, <<1, 2, 1, 1, -2, 1>>, <<1, -2, 1, 1, -2, 1>>, <<1, -2, 1, 1, -2, 1>> >>,
     << <<1, 1, 1, 1, -2, 1>>, <<1, 2, 1, 1, -2, 1>>, <<1, -2, 1, 1, -2, 1>>, <<1, -2, 1, 1, -2, 1>> >>,
     << <<1, 1, 1, 1, -2, 1>>, <<1, 2, 1, 1, -2, 1>>, <<1, -2, 1, 1, -2, 1>>, <<1, -2, 1, 1, -2, 1>> >>,
     << <<1, 1, 1, 1, -2, 1>>, <<1, 2, 1, 1, -2, 1>>, <<1, -2, 1, 1, -2, 1>>, <<1, -2, 1, 1, -2, 1>> >>,
     << <<1, 1, 1, 1, -2, 1>>, <<1, 2, 1, 1, -2, 1>>, <<1, -2, 1, 1, -2, 1>>, <<1, -2, 1, 1, -2, 1>> >>,
     << <<1, 1, 1, 1, -2, 1>>, <<1, 2, 1, 1, -2, 1>>, <<1, -2, 1, 1, -2, 1>>, <<1, -2, 1, 1, -2, 1>> >>,
     << <<1, 1, 1, 1, -1, 1>>, <<1, 2, 1, 1, -1, 1>>, <<1, -2, 1, 1, -1, 1>>, <<1, -2, 1, 1, -2, 1>> >>,
     << <<1, 1, 1, 1, -1, 1>>, <<1, 2, 1, 1, -1, 1>>, <<1, -2, 1, 1, -1, 1>>, <<1, -2, 1, 1, -1, 1>> >>,
     << <<1, -1, 1, 1, 1, 1>>, <<1, 2, 1, 1, 1, 1>>, <<1, -2, 1, 1, -1, 1>>, <<1, 2, 1, 1, 1, 1>> >>,
     << <<1, -1, 1, 1, 1, 1>>, <<1, -2, 1, 1, 1, 1>>, <<1, 2, 1, 1, 1, 1>>, <<1, 2, 1, 1, 2, 1>> >>,
     << <<1, -1, 1, 1, 2, 1>>, <<1, -2, 1, 1, 2, 1>>, <<1, 2, 1, 1, 2, 1>>, <<1, 2, 1, 1, 2, 1>> >>
  >>
----------------------------------------------------------------------------
(* struct BiquadSection, struct FilterBand and the filters.                *)

Arr2(x0, x1) == (0 :> x0) @@ (1 :> x1)
Arr3(x0, x1, x2) == (0 :> x0) @@ (1 :> x1) @@ (2 :> x2)

\* One section as initializeFilterBank assigns it from a table entry.
BiquadSection(c) ==
  [b |-> Arr3(c[1], c[2], c[3]), a |-> Arr3(c[4], c[5], c[6]), z |-> Arr2(0, 0)]

\* z[1] assigned before z[0], which then reads the new z[1].
processBiquad_NewZ1(section, input) ==
  LET output == section.b[0] * input + section.z[0]
      z1     == section.b[2] * input - section.a[2] * output
      z0     == section.b[1] * input - section.a[1] * output + z1
  IN  [section |-> [section EXCEPT !.z = Arr2(z0, z1)], output |-> output]

processBiquad(section, input) ==
  LET output == section.b[0] * input + section.z[0]
      z0     == section.b[1] * input - section.a[1] * output + section.z[1]
      z1     == section.b[2] * input - section.a[2] * output
  IN  [section |-> [section EXCEPT !.z = Arr2(z0, z1)], output |-> output]

\* The loop of processFilterBand from section k on.
RECURSIVE CascadeFrom(_, _, _)
CascadeFrom(band, k, output) ==
  IF k < band.num_sections
    THEN LET r == processBiquad(band.sections[k], output)
         IN  CascadeFrom([band EXCEPT !.sections[k] = r.section], k + 1, r.output)
    ELSE [band |-> band, output |-> output]

\* The section loop started at index 1.
processFilterBand_SkipsFirst(band, input) == CascadeFrom(band, 1, input)

processFilterBand(band, input) == CascadeFrom(band, 0, input)

(* initializeFilterBank assigns num_sections = 2 and sections[0..1] for    *)
(* order 2, and num_sections = 4 and sections[0..3] for order 4.  A band   *)
(* stores two sections: sections[2] and sections[3] lie beyond the array,  *)
(* and the store to sections[2].b[0] (1.0) and .b[1] falls on the bytes of *)
(* num_sections and center_freq.  What a later read of num_sections yields *)
(* is then undefined: the value assigned (4), or the low word of the       *)
(* overlapping 1.0 (0).  Both outcomes are modelled; under the first the   *)
(* sections beyond the array behave as storage of their own.               *)
NumSectionsOutcomes(filter_order) == IF filter_order = 2 THEN {2} ELSE {4, 0}

\* stored: the value a read of num_sections yields after the assignments.
initializeFilterBank(filter_order, stored) ==
  LET table == IF filter_order = 2 THEN Order2Table ELSE Order4Table
  IN  [band \in Bands |->
        LET row == table[band + 1]
        IN  [sections     |-> [s \in 0 .. (Len(row) - 1) |-> BiquadSection(row[s + 1])],
             num_sections |-> stored,
             center_freq  |-> IF stored = Len(row)
                                THEN center_frequencies[band + 1]
                                ELSE 10 * row[3][2]]]

\* The loops of resetFilterState: the delay lines of the sections a band
\* counts, cleared.
ClearedBands(bank) ==
  [band \in Bands |->
     [bank.bands[band] EXCEPT
        !.sections = [s \in DOMAIN bank.bands[band].sections |->
                        IF s < bank.bands[band].num_sections
                          THEN [bank.bands[band].sections[s] EXCEPT !.z = Arr2(0, 0)]
                          ELSE bank.bands[band].sections[s]]]]

\* A reset that clears the accumulated sums with the delay lines.
resetFilterState_ClearsSums(bank) ==
  [bank EXCEPT !.bands = ClearedBands(bank),
               !.temporal_sum = [band \in Bands |-> 0],
               !.initialized = 1]

\* A reset that counts its calls in initialized.
resetFilterState_CountsResets(bank) ==
  [bank EXCEPT !.bands = ClearedBands(bank),
               !.initialized = (@ + 1) % 4]

resetFilterState(bank) ==
  [bank EXCEPT !.bands = ClearedBands(bank), !.initialized = 1]

\* The quotient sample_rate / 1000 taken in integers.
calculateSamplesIntegration_IntegerQuotient(bank) ==
  [bank EXCEPT !.maxNumberOfSamples = (bank.sample_rate \div 1000) * bank.integrationTime]

\* The threshold computed from the default integration time.
calculateSamplesIntegration_DefaultTime(bank) ==
  [bank EXCEPT !.maxNumberOfSamples =
     TruncU64(FMulInt(FDiv(bank.sample_rate, 1000), 125))]

calculateSamplesIntegration(bank) ==
  [bank EXCEPT !.maxNumberOfSamples =
     TruncU64(FMulInt(FDiv(bank.sample_rate, 1000), bank.integrationTime))]

----------------------------------------------------------------------------
(* The level reduction.                                                    *)

RECURSIVE ISqrtFrom(_, _)
ISqrtFrom(n, r) == IF (r + 1) * (r + 1) > n THEN r ELSE ISqrtFrom(n, r + 1)
\* sqrt, to the integer below.
ISqrt(n) == ISqrtFrom(n, 0)

RECURSIVE ILog10(_)
\* log10f of a positive value, to the integer below.
ILog10(n) == IF n < 10 THEN 0 ELSE 1 + ILog10(n \div 10)

\* log10f(0): negative infinity.
NegInf == "-inf"

\* alpha * volume + (1 - alpha) * smoothed, alpha in percent.
Smooth(alpha, volume, smoothed) == (alpha * volume + (100 - alpha) * smoothed) \div 100

\* float rms = sqrt(temporal_sum[band] / (float)samplesCount);
Rms(sum, count) == ISqrt(sum \div count)

\* float level_db = 10.0f * log10f(rms) + mic_constant;
LevelDb(rms, mic_constant) ==
  IF rms = 0 THEN NegInf ELSE 10 * ILog10(rms) + mic_constant

\* The loop of calculateLevel from band on.  reduced records, for each band
\* whose level was computed, the samplesCount it was divided by.
RECURSIVE LevelFrom(_, _, _, _)
LevelFrom(bank, alpha, band, reduced) ==
  IF band >= NUM_BANDS
    THEN [bank |-> [bank EXCEPT !.samplesCount = 0], reduced |-> reduced]
    ELSE IF bank.samplesCount > 0
      THEN LET rms      == Rms(bank.temporal_sum[band], bank.samplesCount)
               level_db == LevelDb(rms, bank.mic_constant)
               smoothed == IF bank.smoothed_level[band] = 0
                             THEN bank.volume_level[band]
                             ELSE Smooth(alpha, bank.volume_level[band],
                                         bank.smoothed_level[band])
           IN  LevelFrom([bank EXCEPT !.smoothed_level[band] = smoothed,
                                      !.volume_level[band] = smoothed,
                                      !.temporal_sum[band] = 0,
                                      !.samplesCount = 0],
                         alpha, band + 1, reduced @@ (band :> bank.samplesCount))
      ELSE LevelFrom(bank, alpha, band + 1, reduced)

\* A reduction that leaves samplesCount as it found it.
calculateLevel_KeepsCount(bank, alpha) ==
  [LevelFrom(bank, alpha, 0, <<>>) EXCEPT !.bank.samplesCount = bank.samplesCount]

\* A reduction that publishes the level of the window for band 0 (the
\* calibration when the window is silent) and leaves smoothed_level behind.
calculateLevel_PublishesLevel(bank, alpha) ==
  [LevelFrom(bank, alpha, 0, <<>>) EXCEPT
     !.bank.volume_level[0] =
        IF Rms(bank.temporal_sum[0], bank.samplesCount) = 0 THEN bank.mic_constant
        ELSE LevelDb(Rms(bank.temporal_sum[0], bank.samplesCount), bank.mic_constant)]

\* A reduction that stores the level of the window for band 0 (the
\* calibration when the window is silent) in both level arrays.
calculateLevel_StoresLevel(bank, alpha) ==
  \* the level is taken from the window as the reduction found it
  LET level_db == IF Rms(bank.temporal_sum[0], bank.samplesCount) = 0
                    THEN bank.mic_constant
                    ELSE LevelDb(Rms(bank.temporal_sum[0], bank.samplesCount),
                                 bank.mic_constant)
  IN  [LevelFrom(bank, alpha, 0, <<>>) EXCEPT
         !.bank.volume_level[0] = level_db,
         !.bank.smoothed_level[0] = level_db]

\* A reduction that restarts the filters: the delay lines cleared with the
\* sums.
calculateLevel_RestartsFilters(bank, alpha) ==
  [LevelFrom(bank, alpha, 0, <<>>) EXCEPT !.bank.bands = ClearedBands(bank)]

\* alpha: what the reads of pFilterBank->alpha yield.  The member has a
\* default initializer, but the instance comes from malloc and no constructor
\* runs, so the value is indeterminate.
calculateLevel(bank, alpha) == LevelFrom(bank, alpha, 0, <<>>)

----------------------------------------------------------------------------
(* The sample loops of third_octave_filter_process.                        *)

\* The band loop of the LEFT_CHANNEL and RIGHT_CHANNEL cases, from band on.
RECURSIVE MonoBands(_, _, _)
MonoBands(bank, band, input) ==
  IF band >= NUM_BANDS THEN bank
  ELSE LET r == processFilterBand(bank.bands[band], input)
       IN  MonoBands([bank EXCEPT
                        !.bands[band] = r.band,
                        !.temporal_sum[band] = FAdd(@, F32Int(r.output * r.output))],
                     band + 1, input)

\* The band loop of the STEREO_CHANNEL case with the right sample filtered
\* before the left one.
RECURSIVE StereoBands_RightFirst(_, _, _, _)
StereoBands_RightFirst(bank, band, input_left, input_right) ==
  IF band >= NUM_BANDS THEN bank
  ELSE LET r == processFilterBand(bank.bands[band], input_right)
           l == processFilterBand(r.band, input_left)
       IN  StereoBands_RightFirst(
             [bank EXCEPT
                !.bands[band] = l.band,
                !.temporal_sum[band] =
                   FAdd(FAdd(@, F32Int(l.output * l.output)),
                        F32Int(r.output * r.output))],
             band + 1, input_left, input_right)

\* The band loop of the STEREO_CHANNEL case, from band on.
RECURSIVE StereoBands(_, _, _, _)
StereoBands(bank, band, input_left, input_right) ==
  IF band >= NUM_BANDS THEN bank
  ELSE LET l == processFilterBand(bank.bands[band], input_left)
           r == processFilterBand(l.band, input_right)
       IN  StereoBands([bank EXCEPT
                          !.bands[band] = r.band,
                          !.temporal_sum[band] =
                             FAdd(FAdd(@, F32Int(l.output * l.output)),
                                  F32Int(r.output * r.output))],
                       band + 1, input_left, input_right)

\* A mono sample counted as two.
MonoSample_CountsTwo(bank, input) ==
  [MonoBands(bank, 0, input) EXCEPT !.samplesCount = @ + 2]

\* One iteration up to and including the increment of samplesCount.
MonoSample(bank, input) ==
  [MonoBands(bank, 0, input) EXCEPT !.samplesCount = @ + 1]

\* A pair counted as one sample.
StereoPair_CountsOne(bank, input_left, input_right) ==
  [StereoBands(bank, 0, input_left, input_right) EXCEPT !.samplesCount = @ + 1]

StereoPair(bank, input_left, input_right) ==
  [StereoBands(bank, 0, input_left, input_right) EXCEPT !.samplesCount = @ + 2]

\* The boundary test with > for >=.
AtBoundary_Late(bank) == bank.samplesCount > bank.maxNumberOfSamples

\* samplesCount >= maxNumberOfSamples
AtBoundary(bank) == bank.samplesCount >= bank.maxNumberOfSamples

\* Every loop starting at index 0.
FirstIndex_Zero(channelType) == 0

\* First index of the loop of a channel case.
FirstIndex(channelType) == IF channelType = RIGHT_CHANNEL THEN 1 ELSE 0

\* Most increments of samplesCount between two allocations that a call in
\* the given mode may reach: MaxFed, rounded up to whole pairs in stereo.
Budget(channelType) ==
  IF channelType = STEREO_CHANNEL THEN 2 * ((MaxFed + 1) \div 2) ELSE MaxFed

\* Increments of samplesCount one call makes on a buffer of length n.
Consumes(channelType, n) ==
  CASE channelType = LEFT_CHANNEL   -> (n + 1) \div 2
    [] channelType = RIGHT_CHANNEL  -> n \div 2
    [] channelType = STEREO_CHANNEL -> 2 * ((n + 1) \div 2)
    [] OTHER -> 0

----------------------------------------------------------------------------
(* State.                                                                  *)

VARIABLES
  pFilterBank,  \* the instance, or NULL
  pc,           \* "idle"; "loop": inside a sample loop; "return": a process
                \* call is about to return; "fault": NULL was dereferenced
  data,         \* the buffer of the process call in progress, data[k] at data[k + 1]
  i,            \* the loop index of the process call in progress
  call,         \* the process call in progress: what it has read and done so far
  obs,          \* the last loop iteration: the bank between increment and boundary check
  hist,         \* since the last alloc: increments of samplesCount, reductions run
  requested     \* <<sample_rate, filter_order, prior>> of an alloc that has just
                \* returned; prior tells what it found: "absent", "clean" or "dirty"

vars == <<pFilterBank, pc, data, i, call, obs, hist, requested>>

buffer_size == Len(data)

Buffers == {[k \in 1 .. n |-> gain * k] : n \in 0 .. MaxLen, gain \in Gains}

\* Buffers of silence, of every length.
ZeroBuffers == {[k \in 1 .. n |-> 0] : n \in 0 .. MaxLen}

NoCall == [start |-> 0, channelType |-> LEFT_CHANNEL, bypassed |-> FALSE,
           passed |-> <<>>, reductions |-> 0, consumed |-> <<>>]
NoObs  == [count |-> 0, sum |-> <<>>, ran |-> FALSE, reduced |-> <<>>]
NoHist == [fed |-> 0, reductions |-> 0, configured |-> FALSE, lowered |-> FALSE]

Init ==
  /\ pFilterBank = NULL
  /\ pc = "idle"
  /\ data = <<>>
  /\ i = 0
  /\ call = NoCall
  /\ obs = NoObs
  /\ hist = NoHist
  /\ requested = <<>>

----------------------------------------------------------------------------
(* Lifecycle.                                                              *)

\* The order stored as requested.
StoredOrder_Unchecked(filter_order) == filter_order

\* The stored order: filter_order when it is 2 or 4, else 2.
StoredOrder(filter_order) ==
  IF filter_order = 2 \/ filter_order = 4 THEN filter_order ELSE 2

\* The members third_octave_filter_alloc assigns, in its order, with the
\* calls it makes; stored is the outcome of initializeFilterBank.  alpha is
\* never assigned.  mic_constant: the calibration it assigns.
Assigned(sample_rate, filter_order, stored, mic_constant) ==
  LET order == StoredOrder(filter_order)
      assigned ==
        [bypass             |-> 1,
         sample_rate        |-> sample_rate,
         filter_order       |-> order,
         initialized        |-> 0,
         channelType        |-> LEFT_CHANNEL,
         bands              |-> initializeFilterBank(order, stored),
         mic_constant       |-> mic_constant,
         integrationTime    |-> 125,
         samplesCount       |-> 0,
         temporal_sum       |-> [band \in Bands |-> 0],
         volume_level       |-> [band \in Bands |-> 0],
         smoothed_level     |-> [band \in Bands |-> 0],
         maxNumberOfSamples |-> 0]
  IN  calculateSamplesIntegration(resetFilterState(assigned))

\* The calibration of an existing instance left as it was.
AllocBank_KeepsCalibration(sample_rate, filter_order, stored) ==
  Assigned(sample_rate, filter_order, stored,
           IF pFilterBank = NULL THEN 120 ELSE pFilterBank.mic_constant)

\* The instance third_octave_filter_alloc leaves behind.
AllocBank(sample_rate, filter_order, stored) ==
  Assigned(sample_rate, filter_order, stored, 120)

\* An instance that differs from a freshly allocated one in more than its
\* sample rate and order.
Dirty(bank) ==
  \/ bank.bypass # 1 \/ bank.channelType # LEFT_CHANNEL
  \/ bank.mic_constant # 120 \/ bank.integrationTime # 125
  \/ bank.samplesCount # 0
  \/ \E band \in Bands :
        \/ bank.temporal_sum[band] # 0
        \/ \E s \in DOMAIN bank.bands[band].sections :
              bank.bands[band].sections[s].z # Arr2(0, 0)

Prior == IF pFilterBank = NULL THEN "absent"
         ELSE IF Dirty(pFilterBank) THEN "dirty" ELSE "clean"

\* malloc when the instance is absent, else the instance is reused; either
\* way every member but alpha is assigned.
third_octave_filter_alloc(sample_rate, filter_order) ==
  /\ pc = "idle"
  /\ \E stored \in NumSectionsOutcomes(StoredOrder(filter_order)) :
       pFilterBank' = AllocBank(sample_rate, filter_order, stored)
  /\ hist' = NoHist
  /\ requested' = <<sample_rate, filter_order, Prior>>
  /\ UNCHANGED <<pc, data, i, call, obs>>

\* free that releases the storage and leaves the pointer as it was.
third_octave_filter_free_KeepsPointer ==
  /\ pc = "idle"
  /\ requested' = <<>>
  /\ UNCHANGED <<pFilterBank, pc, data, i, call, obs, hist>>

third_octave_filter_free ==
  /\ pc = "idle"
  /\ pFilterBank' = NULL
  /\ requested' = <<>>
  /\ UNCHANGED <<pc, data, i, call, obs, hist>>

\* A call of resetFilterState from outside; on an absent instance it
\* dereferences NULL.
Reset ==
  /\ pc = "idle"
  /\ IF pFilterBank = NULL
       THEN pc' = "fault" /\ UNCHANGED pFilterBank
       ELSE pFilterBank' = resetFilterState(pFilterBank) /\ UNCHANGED pc
  /\ requested' = <<>>
  /\ UNCHANGED <<data, i, call, obs, hist>>

----------------------------------------------------------------------------
(* Processing.                                                             *)

\* The bypass test left out.
byPass_Ignored(bank) == 0

\* const int byPass = pFilterBank->bypass == 1 ? 1 : 0;
byPass(bank) == IF bank.bypass = 1 THEN 1 ELSE 0

\* The sample loop of a channel case from index k to its end, as a function:
\* the bank it leaves and the number of reductions it ran.  garbage is what
\* the read of data[k+1] past the end of the buffer yields, alpha what the
\* reads of pFilterBank->alpha yield.
RECURSIVE LoopFrom(_, _, _, _, _, _)
LoopFrom(bank, buf, k, garbage, alpha, reductions) ==
  IF k >= Len(buf) THEN [bank |-> bank, reductions |-> reductions]
  ELSE LET input_right == IF k + 1 < Len(buf) THEN buf[k + 2] ELSE garbage
           counted == CHOOSE c \in {IF bank.channelType = STEREO_CHANNEL
                                      THEN StereoPair(bank, buf[k + 1], input_right)
                                      ELSE MonoSample(bank, buf[k + 1])} : TRUE
       IN  IF AtBoundary(counted)
             THEN LoopFrom(calculateLevel(counted, alpha).bank, buf, k + 2,
                           garbage, alpha, reductions + 1)
             ELSE LoopFrom(counted, buf, k + 2, garbage, alpha, reductions)

\* A call that starts its window afresh.
ProcessCall_ResetsCount(bank, buf, garbage, alpha) ==
  IF byPass(bank) = 1 THEN [bank |-> bank, reductions |-> 0]
  ELSE LoopFrom([bank EXCEPT !.samplesCount = 0], buf,
                FirstIndex(bank.channelType), garbage, alpha, 0)

\* One whole call third_octave_filter_process(buf, Len(buf)) on an allocated
\* bank, as a function.
ProcessCall(bank, buf, garbage, alpha) ==
  IF byPass(bank) = 1 THEN [bank |-> bank, reductions |-> 0]
  ELSE IF bank.channelType \in {LEFT_CHANNEL, RIGHT_CHANNEL, STEREO_CHANNEL}
    THEN LoopFrom(bank, buf, FirstIndex(bank.channelType), garbage, alpha, 0)
    ELSE [bank |-> bank, reductions |-> 0]

\* Entry of third_octave_filter_process(data, buffer_size): the bypass test
\* and the switch on channelType, up to the first loop test.
third_octave_filter_process(buf) ==
  /\ pc = "idle"
  /\ data' = buf
  /\ requested' = <<>>
  /\ IF pFilterBank = NULL
       THEN pc' = "fault" /\ UNCHANGED <<pFilterBank, i, call, obs, hist>>
       ELSE IF byPass(pFilterBank) = 1
         THEN /\ pc' = "return"
              /\ call' = [NoCall EXCEPT !.start = pFilterBank.samplesCount,
                                        !.channelType = pFilterBank.channelType,
                                        !.passed = buf,
                                        !.bypassed = TRUE]
              /\ UNCHANGED <<pFilterBank, i, obs, hist>>
         ELSE /\ hist.fed + Consumes(pFilterBank.channelType, Len(buf))
                   <= Budget(pFilterBank.channelType)
              /\ call' = [NoCall EXCEPT !.start = pFilterBank.samplesCount,
                                        !.channelType = pFilterBank.channelType,
                                        !.passed = buf]
              /\ i' = FirstIndex(pFilterBank.channelType)
              /\ pc' = IF pFilterBank.channelType \in {LEFT_CHANNEL, RIGHT_CHANNEL, STEREO_CHANNEL}
                          /\ FirstIndex(pFilterBank.channelType) < Len(buf)
                         THEN "loop" ELSE "return"
              /\ UNCHANGED <<pFilterBank, obs, hist>>

\* One iteration of the sample loop of the current channel case, with the
\* loop test that follows it.  In the stereo case data[i+1] is read without
\* a test against buffer_size: past the end it yields any value.
ProcessSample ==
  /\ pc = "loop"
  /\ \E input_right \in (IF pFilterBank.channelType # STEREO_CHANNEL THEN {0}
                         ELSE IF i + 1 < buffer_size THEN {data[i + 2]}
                         ELSE Garbage) :
       \E counted \in {IF pFilterBank.channelType = STEREO_CHANNEL
                         THEN StereoPair(pFilterBank, data[i + 1], input_right)
                         ELSE MonoSample(pFilterBank, data[i + 1])} :
         \E alpha \in (IF AtBoundary(counted) THEN AlphaOutcomes ELSE {0}) :
           \E level \in {IF AtBoundary(counted)
                           THEN calculateLevel(counted, alpha)
                           ELSE [bank |-> counted, reduced |-> <<>>]} :
             /\ pFilterBank' = level.bank
             /\ obs' = [count   |-> counted.samplesCount,
                        sum     |-> counted.temporal_sum,
                        ran     |-> AtBoundary(counted),
                        reduced |-> level.reduced]
             /\ call' = [call EXCEPT
                           !.consumed = Append(@, i),
                           !.reductions = @ + (IF AtBoundary(counted) THEN 1 ELSE 0)]
             /\ hist' = [hist EXCEPT
                           !.fed = @ + (counted.samplesCount - pFilterBank.samplesCount),
                           !.reductions = @ + (IF AtBoundary(counted) THEN 1 ELSE 0)]
  /\ i' = i + 2
  /\ pc' = IF i + 2 < buffer_size THEN "loop" ELSE "return"
  /\ UNCHANGED <<data, requested>>

\* The return of third_octave_filter_process: its buffer and locals are gone.
Return ==
  /\ pc = "return"
  /\ pc' = "idle"
  /\ data' = <<>>
  /\ i' = 0
  /\ call' = NoCall
  /\ obs' = NoObs
  /\ UNCHANGED <<pFilterBank, hist, requested>>

----------------------------------------------------------------------------
(* Configuration access (third_octave_filter_setValue).  The header       *)
(* declares the function; its body is not among the sources, and is taken *)
(* from the interface description: bypass, calibration, integration time  *)
(* (recomputing the threshold; not positive is rejected) and channel mode *)
(* (unknown is rejected).                                                  *)

PARAM_BYPASS == 0
PARAM_MIC_CONSTANT == 1
PARAM_INTEGRATION_TIME == 2
PARAM_CHANNEL_TYPE == 3

SetValues(param) ==
  CASE param = PARAM_BYPASS -> {0, 1}
    [] param = PARAM_MIC_CONSTANT -> {94}
    [] param = PARAM_INTEGRATION_TIME -> {250, 0}
    [] param = PARAM_CHANNEL_TYPE -> {LEFT_CHANNEL, RIGHT_CHANNEL, STEREO_CHANNEL, 3}
    [] OTHER -> {1}

\* Every value stored as given.
setValue_Unchecked(bank, param, val) ==
  CASE param = PARAM_BYPASS -> [bank EXCEPT !.bypass = val]
    [] param = PARAM_MIC_CONSTANT -> [bank EXCEPT !.mic_constant = val]
    [] param = PARAM_INTEGRATION_TIME ->
         calculateSamplesIntegration([bank EXCEPT !.integrationTime = val])
    [] param = PARAM_CHANNEL_TYPE -> [bank EXCEPT !.channelType = val]
    [] OTHER -> bank

setValue(bank, param, val) ==
  CASE param = PARAM_BYPASS -> [bank EXCEPT !.bypass = val]
    [] param = PARAM_MIC_CONSTANT -> [bank EXCEPT !.mic_constant = val]
    [] param = PARAM_INTEGRATION_TIME ->
         IF val > 0 THEN calculateSamplesIntegration([bank EXCEPT !.integrationTime = val])
         ELSE bank
    [] param = PARAM_CHANNEL_TYPE ->
         IF val \in {LEFT_CHANNEL, RIGHT_CHANNEL, STEREO_CHANNEL}
           THEN [bank EXCEPT !.channelType = val] ELSE bank
    [] OTHER -> bank

third_octave_filter_setValue(param, val) ==
  /\ pc = "idle"
  /\ pFilterBank # NULL
  /\ pFilterBank' = setValue(pFilterBank, param, val)
  /\ hist' = [hist EXCEPT
                !.configured =
                  @ \/ pFilterBank'.channelType # pFilterBank.channelType
                    \/ pFilterBank'.maxNumberOfSamples # pFilterBank.maxNumberOfSamples,
                !.lowered =
                  @ \/ pFilterBank'.maxNumberOfSamples < pFilterBank.maxNumberOfSamples]
  /\ requested' = <<>>
  /\ UNCHANGED <<pc, data, i, call, obs>>

----------------------------------------------------------------------------
(* Streaming: allocation, the bypass flag, the channel mode and processing. *)
Next ==
  \/ \E sample_rate \in SampleRates, filter_order \in FilterOrders :
       third_octave_filter_alloc(sample_rate, filter_order)
  \/ third_octave_filter_free
  \/ \E buf \in Buffers : third_octave_filter_process(buf)
  \/ ProcessSample
  \/ Return
  \/ \E param \in {PARAM_BYPASS, PARAM_CHANNEL_TYPE} :
       \E val \in SetValues(param) : third_octave_filter_setValue(param, val)

Spec == Init /\ [][Next]_vars

(* Configuration: every parameter and the reset, with one process call per *)
(* allocation.                                                             *)
ConfigNext ==
  \/ \E sample_rate \in ConfigRates, filter_order \in FilterOrders :
       third_octave_filter_alloc(sample_rate, filter_order)
  \/ third_octave_filter_free
  \/ Reset
  \/ \E buf \in Buffers : hist.fed = 0 /\ third_octave_filter_process(buf)
  \/ ProcessSample
  \/ Return
  \/ \E param \in PARAM_BYPASS .. (PARAM_CHANNEL_TYPE + 1) :
       \E val \in SetValues(param) : third_octave_filter_setValue(param, val)

ConfigSpec == Init /\ [][ConfigNext]_vars

(* Allocation and release alone, over a wide range of arguments.           *)
LifecycleNext ==
  \/ \E sample_rate \in AllocRates, filter_order \in AllocOrders :
       third_octave_filter_alloc(sample_rate, filter_order)
  \/ third_octave_filter_free

LifecycleSpec == Init /\ [][LifecycleNext]_vars

(* Silence: the streaming operations and the reset, on buffers whose        *)
(* samples are all zero.                                                   *)
SilenceNext ==
  \/ \E sample_rate \in SampleRates, filter_order \in FilterOrders :
       third_octave_filter_alloc(sample_rate, filter_order)
  \/ third_octave_filter_free
  \/ Reset
  \/ \E buf \in ZeroBuffers : third_octave_filter_process(buf)
  \/ ProcessSample
  \/ Return
  \/ \E param \in {PARAM_BYPASS, PARAM_CHANNEL_TYPE} :
       \E val \in SetValues(param) : third_octave_filter_setValue(param, val)

SilenceSpec == Init /\ [][SilenceNext]_vars

(* Retiming: streaming through order-2 banks whose integration time is     *)
(* raised and lowered between calls.                                       *)
RetimeNext ==
  \/ \E sample_rate \in ConfigRates : third_octave_filter_alloc(sample_rate, 2)
  \/ third_octave_filter_free
  \/ \E buf \in Buffers : third_octave_filter_process(buf)
  \/ ProcessSample
  \/ Return
  \/ \E param \in {PARAM_BYPASS, PARAM_CHANNEL_TYPE} :
       \E val \in SetValues(param) : third_octave_filter_setValue(param, val)
  \/ \E val \in RetimeTimes :
       third_octave_filter_setValue(PARAM_INTEGRATION_TIME, val)

RetimeSpec == Init /\ [][RetimeNext]_vars

(* Timing: allocation over a wide range of rates, and the integration time *)
(* set afterwards.                                                         *)
TimingNext ==
  \/ \E sample_rate \in AllocRates, filter_order \in FilterOrders :
       third_octave_filter_alloc(sample_rate, filter_order)
  \/ third_octave_filter_free
  \/ \E val \in RetimeTimes :
       third_octave_filter_setValue(PARAM_INTEGRATION_TIME, val)

TimingSpec == Init /\ [][TimingNext]_vars

(* Short streams: banks that one call on a buffer of at most two samples    *)
(* has left in the middle of a window or at its start, in every channel     *)
(* mode and for both filter orders.                                         *)
SplitBuffers == {buf \in Buffers : Len(buf) <= 2}

SplitNext ==
  \/ \E sample_rate \in ConfigRates, filter_order \in FilterOrders :
       third_octave_filter_alloc(sample_rate, filter_order)
  \/ \E buf \in SplitBuffers : hist.fed = 0 /\ third_octave_filter_process(buf)
  \/ ProcessSample
  \/ Return
  \/ \E param \in {PARAM_BYPASS, PARAM_INTEGRATION_TIME, PARAM_CHANNEL_TYPE} :
       \E val \in SetValues(param) : third_octave_filter_setValue(param, val)

SplitSpec == Init /\ [][SplitNext]_vars

----------------------------------------------------------------------------
(* Properties.                                                             *)

Allocated == pFilterBank # NULL

\* A loop iteration has just run in the call in progress.
AfterSample == pc \in {"loop", "return"} /\ Len(call.consumed) > 0

\* calculateLevel has just run.
AfterReduction == AfterSample /\ obs.ran

\* C1: whenever the level reduction runs at a window boundary, on its
\* completion temporal_sum[band] is zero for every one of the 31 bands and
\* the shared samplesCount is zero.
C1_ReductionZeroesAll ==
  AfterReduction =>
    /\ pFilterBank.samplesCount = 0
    /\ \A band \in Bands : pFilterBank.temporal_sum[band] = 0

\* C2: at every window boundary the reduce step is executed for each band
\* 0..30 within that same reduction, each band dividing by the samplesCount
\* that triggered the boundary.
C2_EveryBandReduced ==
  AfterReduction =>
    /\ DOMAIN obs.reduced = Bands
    /\ \A band \in DOMAIN obs.reduced : obs.reduced[band] = obs.count

\* C3: with bypass enabled, a process call is a no-op for every buffer,
\* length and channel mode: from its entry to its return no loop is entered,
\* the instance (delay lines, sums, levels, samplesCount) is unchanged, no
\* sample is counted and the buffer holds what was passed.
C3_BypassNoOp ==
  [][ /\ (pc = "idle" /\ pc' # "idle" /\ Allocated /\ pFilterBank.bypass = 1)
         => /\ pc' = "return"
            /\ pFilterBank' = pFilterBank
            /\ hist' = hist
            /\ call'.bypassed /\ call'.consumed = <<>>
            /\ data' = call'.passed
      /\ (pc = "return" /\ call.bypassed)
         => /\ pFilterBank' = pFilterBank
            /\ hist' = hist
            /\ data = call.passed ]_vars

\* C3 witness: a bypassed call is returning, on a non-empty buffer, in stereo
\* mode, over an instance whose sums and delay lines are not zero.
C3_Witness ==
  /\ pc = "return" /\ call.bypassed /\ Len(data) > 1
  /\ pFilterBank.channelType = STEREO_CHANNEL
  /\ pFilterBank.temporal_sum[1] > 0
  /\ pFilterBank.bands[0].sections[0].z # Arr2(0, 0)

\* C4: left-only mode, bypass disabled, threshold T >= 1, from a freshly
\* allocated bank: after n left samples, in any split across process calls,
\* exactly n div T reductions have run, and a reduction runs on a sample
\* exactly when it is the (k*T)-th.
C4_LeftWindows ==
  (Allocated /\ ~hist.configured /\ pFilterBank.maxNumberOfSamples >= 1) =>
    /\ pFilterBank.channelType = LEFT_CHANNEL
    /\ hist.reductions = hist.fed \div pFilterBank.maxNumberOfSamples
    /\ AfterSample => (obs.ran <=> hist.fed % pFilterBank.maxNumberOfSamples = 0)

\* C4 witness: a window of 3 samples, fed in more than one call, whose third
\* sample has just run the first reduction.
C4_Witness ==
  /\ Allocated /\ ~hist.configured /\ pFilterBank.maxNumberOfSamples = 3
  /\ AfterReduction /\ hist.fed = 3 /\ hist.reductions = 1
  /\ Len(call.consumed) < 3

\* An alloc has just returned.
AfterAlloc == Allocated /\ requested # <<>>

\* Sample rates in audio use.
RatesInUse == {8000, 16000, 22050, 44100, 48000, 96000, 192000}

\* C5 as stated: after allocate the threshold equals
\* floor(sample_rate / 1000 * 125), the product taken exactly.
C5_ExactFloor ==
  AfterAlloc => pFilterBank.maxNumberOfSamples = (requested[1] * 125) \div 1000

\* C5 as amended: after allocate the integration time is 125 ms and the
\* threshold is the truncation of the binary32 product
\* (sample_rate / 1000) * 125; that is floor(sample_rate / 1000 * 125) for
\* the rates in audio use (48000 gives 6000) and never more than one below it.
C5_Threshold ==
  AfterAlloc =>
    LET exact == (requested[1] * 125) \div 1000
        T     == pFilterBank.maxNumberOfSamples
    IN  /\ pFilterBank.sample_rate = requested[1]
        /\ pFilterBank.integrationTime = 125
        /\ T = TruncU64(FMulInt(FDiv(requested[1], 1000), 125))
        /\ T \in {exact - 1, exact}
        /\ requested[1] \in RatesInUse => T = exact
        /\ requested[1] = 48000 => T = 6000

\* C5 witness: allocated at 48000 Hz, with a window of 6000 samples.
C5_Witness ==
  AfterAlloc /\ requested[1] = 48000 /\ pFilterBank.maxNumberOfSamples = 6000

\* C6: after allocate every band has exactly 1 section when the stored
\* order is 2 and exactly 2 sections when it is 4.
C6_SectionCount ==
  Allocated =>
    \A band \in Bands :
      pFilterBank.bands[band].num_sections =
        (IF pFilterBank.filter_order = 2 THEN 1 ELSE 2)

\* C7: allocate stores filter_order unchanged when it is 2 or 4 and 2 for
\* every other value; the stored order is always 2 or 4, and the
\* coefficients installed are those of the stored order.
C7_StoredOrder ==
  Allocated =>
    /\ pFilterBank.filter_order \in {2, 4}
    /\ AfterAlloc =>
         /\ pFilterBank.filter_order =
              (IF requested[2] \in {2, 4} THEN requested[2] ELSE 2)
         /\ \A band \in Bands :
              LET row == (IF pFilterBank.filter_order = 2
                            THEN Order2Table ELSE Order4Table)[band + 1]
                  sections == pFilterBank.bands[band].sections
              IN  /\ DOMAIN sections = 0 .. (Len(row) - 1)
                  /\ \A s \in DOMAIN sections :
                       /\ sections[s].b = Arr3(row[s + 1][1], row[s + 1][2], row[s + 1][3])
                       /\ sections[s].a = Arr3(row[s + 1][4], row[s + 1][5], row[s + 1][6])

\* C7 witness: an order below zero was requested and order 2 is stored.
C7_Witness ==
  AfterAlloc /\ requested[2] < 0 /\ pFilterBank.filter_order = 2

\* C8: whatever allocate finds (no instance, or an instance in any state),
\* on return bypass is enabled, the channel mode is left-only, every delay
\* line is zero, every sum and level is zero, samplesCount is zero, the
\* calibration is 120 dB and the integration time 125 ms.
C8_AllocReinitializes ==
  requested # <<>> =>
    /\ Allocated
    /\ pFilterBank.bypass = 1
    /\ pFilterBank.channelType = LEFT_CHANNEL
    /\ pFilterBank.mic_constant = 120
    /\ pFilterBank.integrationTime = 125
    /\ pFilterBank.samplesCount = 0
    /\ \A band \in Bands :
         /\ pFilterBank.temporal_sum[band] = 0
         /\ pFilterBank.volume_level[band] = 0
         /\ pFilterBank.smoothed_level[band] = 0
         /\ \A s \in DOMAIN pFilterBank.bands[band].sections :
              pFilterBank.bands[band].sections[s].z = Arr2(0, 0)

\* C8 witness: allocate has returned after finding an instance that had been
\* configured or had processed samples.
C8_Witness == AfterAlloc /\ requested[3] = "dirty"

\* The channel offset c of a mono mode.
MonoOffset(channelType) == IF channelType = LEFT_CHANNEL THEN 0 ELSE 1

\* C9: in a mono mode with channel offset c and bypass disabled, a process
\* call reads exactly the indices c, c+2, c+4, ... below buffer_size, in
\* increasing order; each sample read advances every band's filter exactly
\* once and increments samplesCount by exactly 1 before any boundary reset.
C9_MonoConsumption ==
  [][ /\ ( /\ pc = "idle" /\ pc' # "idle" /\ Allocated
           /\ pFilterBank.bypass # 1
           /\ pFilterBank.channelType \in {LEFT_CHANNEL, RIGHT_CHANNEL} )
         => /\ call'.consumed = <<>>
            /\ i' = MonoOffset(pFilterBank.channelType)
            /\ pc' = (IF i' < Len(data') THEN "loop" ELSE "return")
      /\ (pc = "loop" /\ pFilterBank.channelType \in {LEFT_CHANNEL, RIGHT_CHANNEL})
         => /\ i = MonoOffset(pFilterBank.channelType) + 2 * Len(call.consumed)
            /\ i < buffer_size
            /\ call'.consumed = Append(call.consumed, i)
            /\ data' = data
            /\ obs'.count = pFilterBank.samplesCount + 1
            /\ \A band \in Bands :
                 pFilterBank'.bands[band] =
                   processFilterBand(pFilterBank.bands[band], data[i + 1]).band
            /\ pc' = (IF i + 2 < buffer_size THEN "loop" ELSE "return") ]_vars

\* C9 witness: a right-only call on four samples has read indices 1 and 3.
C9_Witness ==
  /\ pc = "return" /\ ~call.bypassed
  /\ call.channelType = RIGHT_CHANNEL
  /\ Len(data) = 4 /\ call.consumed = <<1, 3>>

\* C10: in stereo dual-mono mode with bypass disabled every pair advances
\* samplesCount by 2 (2N after N pairs when no boundary is crossed), and for
\* every band the squared left and right outputs of the pair are both added
\* to that band's temporal_sum.
C10_StereoAccumulation ==
  [][ (pc = "loop" /\ pFilterBank.channelType = STEREO_CHANNEL) =>
        /\ obs'.count = pFilterBank.samplesCount + 2
        /\ \E right \in (IF i + 1 < buffer_size THEN {data[i + 2]} ELSE Garbage) :
             \A band \in Bands :
               LET l == processFilterBand(pFilterBank.bands[band], data[i + 1])
                   r == processFilterBand(l.band, right)
               IN  obs'.sum[band] =
                     FAdd(FAdd(pFilterBank.temporal_sum[band], F32Int(l.output * l.output)),
                          F32Int(r.output * r.output))
        /\ ~obs'.ran => pFilterBank'.samplesCount = pFilterBank.samplesCount + 2
        /\ call'.reductions = 0 =>
             pFilterBank'.samplesCount = call.start + 2 * Len(call'.consumed) ]_vars

\* C10 witness: a stereo pair has been counted without reaching the
\* boundary, and both of its outputs stand in a band's sum.
C10_Witness ==
  /\ AfterSample /\ call.channelType = STEREO_CHANNEL /\ ~obs.ran
  /\ Len(data) >= 2 /\ call.consumed = <<0>>
  /\ pFilterBank.samplesCount = call.start + 2
  /\ pFilterBank.temporal_sum[0] > 1

\* C11: in stereo dual-mono mode every pair advances each band's one filter
\* state exactly twice, with the left sample and then with the right one:
\* the state after the pair is that of the right sample filtered from the
\* state the left sample left behind, and it is the state the next pair's
\* left sample starts from.
C11_LeftThenRight ==
  [][ (pc = "loop" /\ pFilterBank.channelType = STEREO_CHANNEL) =>
        \E right \in (IF i + 1 < buffer_size THEN {data[i + 2]} ELSE Garbage) :
          \A band \in Bands :
            pFilterBank'.bands[band] =
              processFilterBand(
                processFilterBand(pFilterBank.bands[band], data[i + 1]).band,
                right).band ]_vars

\* C11 witness: a stereo call has filtered two whole pairs, and the state
\* of band 0 is not the one the opposite order would have left.
C11_Witness ==
  /\ pc = "return" /\ call.channelType = STEREO_CHANNEL /\ ~call.bypassed
  /\ Len(data) = 4 /\ call.consumed = <<0, 2>>
  /\ pFilterBank.bands[0].num_sections = 2
  /\ pFilterBank.bands[0].sections[0].z # Arr2(0, 0)

\* C12: a call of process, or of a helper that touches the bank, while the
\* instance is absent never dereferences the absent instance.
C12_NoNullDereference == pc # "fault"

\* C13: every step of free leaves the instance absent, whatever it was, and
\* changes nothing when it was absent already; and an allocate that finds no
\* instance leaves one with every member it assigns at its default.
C13_FreeReleases ==
  [][ /\ third_octave_filter_free =>
            /\ pFilterBank' = NULL /\ pc' = "idle"
            /\ pFilterBank = NULL => UNCHANGED vars
      /\ (pFilterBank = NULL /\ pFilterBank' # NULL) =>
            /\ requested'[3] = "absent"
            /\ pFilterBank'.bypass = 1
            /\ pFilterBank'.channelType = LEFT_CHANNEL
            /\ pFilterBank'.initialized = 1
            /\ pFilterBank'.mic_constant = 120
            /\ pFilterBank'.integrationTime = 125
            /\ pFilterBank'.samplesCount = 0
            /\ pFilterBank'.filter_order \in {2, 4}
            /\ \A band \in Bands :
                 /\ pFilterBank'.temporal_sum[band] = 0
                 /\ pFilterBank'.volume_level[band] = 0
                 /\ pFilterBank'.smoothed_level[band] = 0
                 /\ \A s \in DOMAIN pFilterBank'.bands[band].sections :
                      pFilterBank'.bands[band].sections[s].z = Arr2(0, 0) ]_vars

\* C13 witness: the instance is absent after it had been configured and had
\* processed samples.
C13_Witness ==
  pFilterBank = NULL /\ pc = "idle" /\ hist.fed > 0 /\ hist.configured

\* C14: every step of reset on an allocated bank sets z[0] and z[1] of every
\* section of every band to zero and marks the bank initialized, and leaves
\* the coefficients, the section counts, the sums, samplesCount, the levels
\* and the configuration as they were.
C14_ResetFrame ==
  [][ (Reset /\ Allocated) =>
        /\ pc' = "idle"
        /\ pFilterBank'.initialized = 1
        /\ \A band \in Bands :
             LET old == pFilterBank.bands[band]
                 new == pFilterBank'.bands[band]
             IN  /\ new.num_sections = old.num_sections
                 /\ new.center_freq = old.center_freq
                 /\ DOMAIN new.sections = DOMAIN old.sections
                 /\ \A s \in DOMAIN old.sections :
                      /\ new.sections[s].b = old.sections[s].b
                      /\ new.sections[s].a = old.sections[s].a
                      /\ new.sections[s].z = Arr2(0, 0)
        /\ pFilterBank'.temporal_sum = pFilterBank.temporal_sum
        /\ pFilterBank'.samplesCount = pFilterBank.samplesCount
        /\ pFilterBank'.volume_level = pFilterBank.volume_level
        /\ pFilterBank'.smoothed_level = pFilterBank.smoothed_level
        /\ pFilterBank'.bypass = pFilterBank.bypass
        /\ pFilterBank'.channelType = pFilterBank.channelType
        /\ pFilterBank'.mic_constant = pFilterBank.mic_constant
        /\ pFilterBank'.integrationTime = pFilterBank.integrationTime
        /\ pFilterBank'.maxNumberOfSamples = pFilterBank.maxNumberOfSamples
        /\ pFilterBank'.sample_rate = pFilterBank.sample_rate
        /\ pFilterBank'.filter_order = pFilterBank.filter_order ]_vars

\* C14 witness: an order-2 bank that has filtered samples holds sums above
\* zero over delay lines that are all zero: a reset has cleared them.
C14_Witness ==
  /\ Allocated /\ pc = "idle" /\ hist.fed > 0
  /\ pFilterBank.filter_order = 2
  /\ pFilterBank.temporal_sum[1] > 0
  /\ \A band \in Bands : \A s \in DOMAIN pFilterBank.bands[band].sections :
        pFilterBank.bands[band].sections[s].z = Arr2(0, 0)

\* C15: for every reachable bank, reset applied twice yields the state reset
\* applied once yields, with every delay line at zero.
C15_ResetIdempotent ==
  Allocated =>
    \E once \in {resetFilterState(pFilterBank)} :
      /\ resetFilterState(once) = once
      /\ \A band \in Bands : \A s \in DOMAIN once.bands[band].sections :
           once.bands[band].sections[s].z = Arr2(0, 0)

\* C15 witness: a bank with integration time changed and samples filtered
\* that a further reset leaves as it is.
C15_Witness ==
  /\ Allocated /\ pc = "idle" /\ hist.fed > 0
  /\ pFilterBank.integrationTime # 125
  /\ pFilterBank.bands[0].num_sections = 2
  /\ pFilterBank.temporal_sum[0] > 0
  /\ resetFilterState(pFilterBank) = pFilterBank

\* C16: at the first window boundary after allocation the level published
\* for a band is the level of that window,
\* 10 * log10(sqrt(temporal_sum[band] / samplesCount)) + mic_constant:
\* smoothed_level[band] and volume_level[band] are both set to it.  (Bands
\* whose rms is at least 1, where the level is a number.)
C16_FirstLevelPublished ==
  (AfterReduction /\ hist.reductions = 1) =>
    \A band \in Bands :
      obs.sum[band] >= obs.count =>
        /\ pFilterBank.volume_level[band] =
             LevelDb(Rms(obs.sum[band], obs.count), pFilterBank.mic_constant)
        /\ pFilterBank.smoothed_level[band] = pFilterBank.volume_level[band]

\* C17: in every reachable state of an allocated bank smoothed_level[band]
\* equals volume_level[band] for every band.
C17_SmoothedIsVolume ==
  Allocated =>
    \A band \in Bands :
      pFilterBank.smoothed_level[band] = pFilterBank.volume_level[band]

\* C17 witness: the second reduction since allocation has just run, on a
\* window whose band 0 sum is above zero.
C17_Witness ==
  AfterReduction /\ hist.reductions = 2 /\ obs.sum[0] > 0

\* C18: from a freshly allocated or reset bank with bypass disabled, buffers
\* of zeros, of any length and in any channel mode, keep every delay line
\* and every temporal_sum at zero, so that every window boundary sees a zero
\* sum for all 31 bands.
C18_SilenceStaysZero ==
  Allocated =>
    /\ \A band \in Bands :
         /\ pFilterBank.temporal_sum[band] = 0
         /\ \A s \in DOMAIN pFilterBank.bands[band].sections :
              pFilterBank.bands[band].sections[s].z = Arr2(0, 0)
    /\ AfterReduction => \A band \in Bands : obs.sum[band] = 0

C20_BiquadStep ==
  Allocated =>
    \A band \in Bands, input \in StepInputs :
      LET sections == pFilterBank.bands[band].sections
      IN  /\ \A s \in DOMAIN sections :
               LET section == sections[s]
                   r       == processBiquad(section, input)
                   output  == section.b[0] * input + section.z[0]
               IN  /\ r.output = output
                   /\ r.section.z[0] =
                        section.b[1] * input - section.a[1] * output + section.z[1]
                   /\ r.section.z[1] = section.b[2] * input - section.a[2] * output
                   /\ r.section.b = section.b
                   /\ r.section.a = section.a
                   /\ DOMAIN r.section = DOMAIN section
          /\ pFilterBank.bands[band].num_sections = 2 =>
               LET first  == processBiquad(sections[0], input)
                   second == processBiquad(sections[1], first.output)
                   after  == processFilterBand(pFilterBank.bands[band], input)
               IN  /\ after.band.sections[0] = first.section
                   /\ after.band.sections[1] = second.section
                   /\ after.output = second.output

\* C20 witness: a section of band 0 holds z[0] and z[1] both away from zero,
\* so that a step from it reads an old z[1] that matters.
C20_Witness ==
  /\ Allocated /\ pc = "idle" /\ hist.fed > 0
  /\ pFilterBank.bands[0].num_sections = 2
  /\ pFilterBank.bands[0].sections[0].z[0] # 0
  /\ pFilterBank.bands[0].sections[0].z[1] # 0

\* C21: processFilterBand applies the sections 0, 1, ..., n-1 of the band in
\* that order, each once, the output of one being the input of the next,
\* and returns the output of the last: with in[0] the input and in[k+1] the
\* output of section k stepped on in[k], section k is left as its step on
\* in[k] leaves it, the sections from n on are left alone, and the result
\* is in[n].
C21_CascadeInOrder ==
  Allocated =>
    \A b \in Bands, input \in StepInputs :
      LET band  == pFilterBank.bands[b]
          n     == band.num_sections
          in[k \in 0 .. n] ==
            IF k = 0 THEN input
            ELSE processBiquad(band.sections[k - 1], in[k - 1]).output
          after == processFilterBand(band, input)
      IN  /\ after.output = in[n]
          /\ after.band.num_sections = n
          /\ after.band.center_freq = band.center_freq
          /\ DOMAIN after.band.sections = DOMAIN band.sections
          /\ \A k \in DOMAIN band.sections :
               after.band.sections[k] =
                 IF k < n THEN processBiquad(band.sections[k], in[k]).section
                 ELSE band.sections[k]

\* C21 witness: a band of four sections has filtered samples through all of
\* them.
C21_Witness ==
  /\ Allocated /\ pc = "idle" /\ hist.fed > 0
  /\ \E b \in Bands :
       /\ pFilterBank.bands[b].num_sections = 4
       /\ \A k \in 0 .. 3 : pFilterBank.bands[b].sections[k].z # Arr2(0, 0)

\* C22 as stated: with threshold T >= 1 and bypass disabled, after every
\* step of a sample loop and on every return from process,
\* 0 <= samplesCount < T.
C22_BelowThresholdOnReturn ==
  (Allocated /\ pFilterBank.maxNumberOfSamples >= 1) =>
    ((AfterSample \/ (pc = "return" /\ ~call.bypassed)) =>
       /\ 0 <= pFilterBank.samplesCount
       /\ pFilterBank.samplesCount < pFilterBank.maxNumberOfSamples)

\* C22 as amended: with threshold T >= 1 the boundary check runs after every
\* increment: the reduction runs exactly when the count has reached T and
\* leaves the count at 0, else the count stands; so after every step
\* 0 <= samplesCount < T, and the same holds in every state of a bank whose
\* threshold has not been lowered since allocation.
C22_BelowThresholdAfterStep ==
  (Allocated /\ pFilterBank.maxNumberOfSamples >= 1) =>
    /\ AfterSample =>
         /\ obs.ran <=> obs.count >= pFilterBank.maxNumberOfSamples
         /\ pFilterBank.samplesCount = (IF obs.ran THEN 0 ELSE obs.count)
         /\ 0 <= pFilterBank.samplesCount
         /\ pFilterBank.samplesCount < pFilterBank.maxNumberOfSamples
    /\ ~hist.lowered =>
         /\ 0 <= pFilterBank.samplesCount
         /\ pFilterBank.samplesCount < pFilterBank.maxNumberOfSamples

\* C22 witness: a window of 2 samples closed on the first sample of a call
\* and the second sample of the call stands in the next window.
C22_Witness ==
  /\ pc = "return" /\ ~call.bypassed
  /\ pFilterBank.maxNumberOfSamples = 2
  /\ call.start = 1 /\ Len(call.consumed) = 2 /\ call.reductions = 1
  /\ pFilterBank.samplesCount = 1
  /\ pFilterBank.temporal_sum[1] > 0

\* C23 as stated: in every reachable state of an allocated bank the
\* threshold equals floor(sample_rate / 1000 * integration_time), the
\* product taken exactly.
C23_ExactFloorAlways ==
  Allocated =>
    pFilterBank.maxNumberOfSamples =
      (pFilterBank.sample_rate * pFilterBank.integrationTime) \div 1000

\* C23 as amended: in every reachable state of an allocated bank the
\* integration time is positive and the threshold is the truncation of the
\* binary32 product (sample_rate / 1000) * integrationTime for the current
\* integration time; that is the exact floor for the rates in audio use and
\* never more than one below it.
C23_ThresholdTracksTime ==
  Allocated =>
    LET exact == (pFilterBank.sample_rate * pFilterBank.integrationTime) \div 1000
        T     == pFilterBank.maxNumberOfSamples
    IN  /\ pFilterBank.integrationTime > 0
        /\ T = TruncU64(FMulInt(FDiv(pFilterBank.sample_rate, 1000),
                                 pFilterBank.integrationTime))
        /\ T \in {exact - 1, exact}
        /\ pFilterBank.sample_rate \in RatesInUse => T = exact

\* C23 witness: the integration time of a bank at 48000 Hz has been set to
\* 250 ms and the threshold is 12000.
C23_Witness ==
  /\ Allocated /\ pFilterBank.sample_rate = 48000
  /\ pFilterBank.integrationTime = 250
  /\ pFilterBank.maxNumberOfSamples = 12000

\* A request the configuration interface has to refuse.
InvalidRequest(param, val) ==
  \/ param = PARAM_INTEGRATION_TIME /\ val <= 0
  \/ param = PARAM_CHANNEL_TYPE
       /\ val \notin {LEFT_CHANNEL, RIGHT_CHANNEL, STEREO_CHANNEL}
  \/ param \notin PARAM_BYPASS .. PARAM_CHANNEL_TYPE

C25_SectionsWithinStorage ==
  Allocated =>
    \A band \in Bands :
      /\ pFilterBank.bands[band].num_sections <= MAX_BIQUAD_SECTIONS
      /\ DOMAIN pFilterBank.bands[band].sections
            \subseteq 0 .. (MAX_BIQUAD_SECTIONS - 1)

\* C26: process never reads a buffer index >= buffer_size: every index the
\* loop has read a sample at is below buffer_size, and in stereo mode the
\* index of the right sample of each pair is below buffer_size as well.
C26_ReadsWithinBuffer ==
  AfterSample =>
    \A k \in 1 .. Len(call.consumed) :
      /\ call.consumed[k] < buffer_size
      /\ call.channelType = STEREO_CHANNEL => call.consumed[k] + 1 < buffer_size

\* C27: in every reachable state of an allocated bank volume_level[band] and
\* smoothed_level[band] are 0 for every band, whatever input was processed.
C27_LevelsStayZero ==
  Allocated =>
    \A band \in Bands :
      /\ pFilterBank.volume_level[band] = 0
      /\ pFilterBank.smoothed_level[band] = 0

\* C27 witness: a reduction has just run on a window whose band 0 has an rms
\* above zero, so that level_db was computed and is not zero, and it was not
\* the first reduction since allocation.
C27_Witness ==
  /\ AfterReduction /\ hist.reductions >= 2
  /\ Rms(obs.sum[0], obs.count) > 0
  /\ LevelDb(Rms(obs.sum[0], obs.count), pFilterBank.mic_constant) # 0

\* The members the level reduction may write.
ReductionWrites == {"temporal_sum", "samplesCount", "smoothed_level", "volume_level"}

\* C28: the level reduction at a window boundary modifies only temporal_sum,
\* samplesCount, smoothed_level and volume_level: in an iteration that ends
\* with the reduction, every other member of the bank (the bands with their
\* coefficients, section counts and delay lines z, and the configuration) is
\* left as the filter step of that iteration left it, and the configuration
\* as it was before the iteration.
C28_ReductionFrame ==
  [][ (pc = "loop" /\ obs'.ran) =>
        \E input_right \in (IF pFilterBank.channelType # STEREO_CHANNEL THEN {0}
                             ELSE IF i + 1 < buffer_size THEN {data[i + 2]}
                             ELSE Garbage) :
          \E counted \in {IF pFilterBank.channelType = STEREO_CHANNEL
                            THEN StereoPair(pFilterBank, data[i + 1], input_right)
                            ELSE MonoSample(pFilterBank, data[i + 1])} :
            /\ DOMAIN pFilterBank' = DOMAIN pFilterBank
            /\ \A member \in DOMAIN pFilterBank \ ReductionWrites :
                 pFilterBank'[member] = counted[member]
            /\ \A member \in DOMAIN pFilterBank \ (ReductionWrites \cup {"bands"}) :
                 pFilterBank'[member] = pFilterBank[member] ]_vars

\* C28 witness: a reduction has just run in the middle of a buffer, and the
\* delay lines of a band are not zero: the next sample of the buffer is
\* filtered from them.
C28_Witness ==
  /\ AfterReduction /\ pc = "loop" /\ pFilterBank.samplesCount = 0
  /\ \E band \in Bands :
       pFilterBank.bands[band].sections[0].z # Arr2(0, 0)

\* The ways of cutting a stream of at most MaxLen samples in two buffers,
\* the first of even length.
Cuts ==
  {<<A, B>> \in Buffers \X Buffers :
     Len(A) % 2 = 0 /\ Len(A) + Len(B) <= MaxLen}

\* The stream of a cut: the samples of A followed by those of B.
Stream(cut) == cut[1] \o cut[2]

\* C29: for a fixed channel mode and bypass disabled, process(A) followed by
\* process(B), A of even length, leaves the bank in the same state (delay
\* lines, sums, samplesCount, levels) and runs the same number of reductions
\* as one process call on A followed by B, whatever the reads of alpha yield
\* and for each value a read past the end of B yields.
C29_SplitIndependent ==
  (Allocated /\ pc = "idle" /\ pFilterBank.bypass = 0) =>
    \A cut \in Cuts, alpha \in AlphaOutcomes :
      \A garbage \in (IF pFilterBank.channelType = STEREO_CHANNEL
                          /\ Len(cut[2]) % 2 = 1
                        THEN Garbage ELSE {0}) :
        \E first \in {ProcessCall(pFilterBank, cut[1], garbage, alpha)} :
          \E second \in {ProcessCall(first.bank, cut[2], garbage, alpha)} :
            \E whole \in {ProcessCall(pFilterBank, Stream(cut), garbage, alpha)} :
              /\ second.bank = whole.bank
              /\ first.reductions + second.reductions = whole.reductions

\* C29 witness: an idle bank in the middle of a window of two samples, with
\* delay lines that are not zero, for which the stream <<1, 2, 1, 2>> cut in
\* two buffers of two samples runs a reduction in the first call and leaves
\* the second call in the middle of the next window.
C29_Witness ==
  /\ Allocated /\ pc = "idle" /\ pFilterBank.bypass = 0
  /\ pFilterBank.samplesCount = 1 /\ pFilterBank.maxNumberOfSamples = 2
  /\ pFilterBank.bands[0].sections[0].z # Arr2(0, 0)
  /\ pFilterBank.channelType = LEFT_CHANNEL
  /\ ProcessCall(pFilterBank, <<1, 2>>, 0, 0).reductions = 1
  /\ ProcessCall(ProcessCall(pFilterBank, <<1, 2>>, 0, 0).bank, <<1, 2>>, 0, 0).bank.samplesCount = 1
  /\ ProcessCall(pFilterBank, <<1, 2, 1, 2>>, 0, 0).bank.samplesCount = 1

\* The divisor of the reduction that has just run against the threshold T:
\* T in the mono modes; T or T + 1 in stereo mode, T + 1 exactly when the
\* count before the pair had parity opposite to T; never above T + 1.
DivisorWithin(divisor, T, channelType) ==
  /\ channelType \in {LEFT_CHANNEL, RIGHT_CHANNEL} => divisor = T
  /\ channelType = STEREO_CHANNEL =>
       /\ divisor \in {T, T + 1}
       /\ divisor = T + 1 <=> (divisor - 2) % 2 # T % 2
  /\ divisor <= T + 1

\* C30 as stated: the samplesCount used as the divisor in a reduction is T
\* in the mono modes and T or T + 1 in stereo mode, and never exceeds T + 1
\* while T >= 1.
C30_DivisorBound ==
  (AfterReduction /\ pFilterBank.maxNumberOfSamples >= 1) =>
    DivisorWithin(obs.count, pFilterBank.maxNumberOfSamples, call.channelType)

\* C30, amended: every reduction divides by a count that is at least T, and
\* is the count before the iteration plus 1 (mono) or 2 (stereo); while the
\* threshold has not been lowered since allocation the divisor is T in the
\* mono modes and T or T + 1 in stereo mode, T + 1 exactly when the count
\* before the pair had parity opposite to T.
C30_DivisorWithoutLowering ==
  (AfterReduction /\ pFilterBank.maxNumberOfSamples >= 1) =>
    /\ obs.count >= pFilterBank.maxNumberOfSamples
    /\ obs.count >= (IF call.channelType = STEREO_CHANNEL THEN 2 ELSE 1)
    /\ ~hist.lowered =>
         DivisorWithin(obs.count, pFilterBank.maxNumberOfSamples, call.channelType)

\* C30 witness: a stereo reduction, not the first since allocation, has
\* divided by T + 1, T = 1, with the threshold never lowered.
C30_Witness ==
  /\ AfterReduction /\ ~hist.lowered /\ hist.reductions >= 2
  /\ call.channelType = STEREO_CHANNEL
  /\ pFilterBank.maxNumberOfSamples = 1
  /\ obs.count = pFilterBank.maxNumberOfSamples + 1

====
